---- MODULE Spec2Model ----
(***************************************************************************)
(* koneksi-drive: the FUSE node tree (koneksiNode) and the per-open file   *)
(* handle (koneksiFileHandle) of internal/fs, over the remote store that   *)
(* internal/api's Client talks to.                                         *)
(*                                                                         *)
(* Each filesystem call runs on a worker.  A call is cut into steps at     *)
(* every remote-store round trip and at every critical section of a node's *)
(* mutex, which are the only places where another worker can interleave.   *)
(* The remote namespace is one level deep: namespace calls (Lookup,        *)
(* Create, Mkdir, Unlink, Rmdir) are issued on the root node, Readdir,     *)
(* Getattr and Open on the root and on its children.                       *)
(***************************************************************************)
EXTENDS Integers, Sequences, FiniteSets, TLC

(***************************************************************************)
(* Bounds of the model.                                                    *)
(***************************************************************************)
\* filesystem calls issued in one behaviour
MaxOps == 3
\* largest offset of a Read or a Write
MaxOff == 2
\* largest destination buffer of a Read
MaxReadLen == 3

\* names of directory entries
Names == {"a", "b"}
\* payloads of Write
Datas == {<<7>>, <<8, 9>>}
\* contents of the files the remote store holds before the mount
InitContents == {<<1, 2, 3>>}
\* the workers of the FUSE server; the sequential specification uses the first
Workers == {1, 2}

(***************************************************************************)
(* Errno values and open flags (syscall).                                  *)
(***************************************************************************)
OK == "OK"
ENOENT == "ENOENT"
EIO == "EIO"
ENOTDIR == "ENOTDIR"
EISDIR == "EISDIR"
EROFS == "EROFS"
ESTALE == "ESTALE"

O_RDONLY == 0
O_WRONLY == 1
O_RDWR == 2
OpenFlags == {O_RDONLY, O_WRONLY, O_RDWR}
CreateFlags == {O_WRONLY}

S_IFREG == "S_IFREG"
S_IFDIR == "S_IFDIR"

(***************************************************************************)
(* Sequence helpers.                                                       *)
(***************************************************************************)
Min(x, y) == IF x <= y THEN x ELSE y

Max(x, y) == IF x >= y THEN x ELSE y

\* the first k elements of s (all of s when it is shorter)
Take(s, k) == SubSeq(s, 1, Min(k, Len(s)))

\* s without its first k elements (empty when it is shorter)
Drop(s, k) == SubSeq(s, Min(k, Len(s)) + 1, Len(s))

\* every ordering of the finite set S, as sequences
Perms(S) ==
  {f \in [1..Cardinality(S) -> S] : \A i, j \in 1..Cardinality(S) : f[i] = f[j] => i = j}

(***************************************************************************)
(* Paths: filepath.Join(n.path, name) cleans "/" + "/" + name to "/name".  *)
(***************************************************************************)
RootPath == "/"

\* a join that puts a separator after every parent path, the root's included
Join_NoClean(p, name) == p \o "/" \o name

Join(p, name) == IF p = RootPath THEN p \o name ELSE p \o "/" \o name

StorePaths == {Join(RootPath, nm) : nm \in Names}

(***************************************************************************)
(* The remote store: one object per path.                                  *)
(***************************************************************************)
NoObj == [kind |-> "none", content |-> <<>>, mtime |-> 0]

FileObj(c, t) == [kind |-> "file", content |-> c, mtime |-> t]

DirObj(t) == [kind |-> "dir", content |-> <<>>, mtime |-> t]

\* what the remote directory holds when the filesystem is mounted: nothing, a
\* file, a directory, or a file and a directory
InitStores ==
  {[p \in StorePaths |-> NoObj]}
    \cup {[p \in StorePaths |-> IF p = Join(RootPath, "a") THEN FileObj(c, 0) ELSE NoObj] :
            c \in InitContents}
    \cup {[p \in StorePaths |-> IF p = Join(RootPath, "a") THEN DirObj(0) ELSE NoObj]}
    \cup {[p \in StorePaths |-> IF p = Join(RootPath, "a") THEN FileObj(c, 0) ELSE DirObj(0)] :
            c \in InitContents}

\* api.FileInfo as List decodes it from the object at path p
EntryOf(st, p, nm) ==
  [Name |-> nm, Size |-> Len(st[p].content), IsDir |-> (st[p].kind = "dir"),
   Modified |-> st[p].mtime]

\* the names the remote directory dir holds
RemoteNames(st, dir) ==
  {nm \in Names : Join(dir, nm) \in DOMAIN st /\ st[Join(dir, nm)].kind # "none"}

\* Client.List: the entries of dir, in an order the server picks
RemoteList(st, dir) ==
  {[i \in 1..Cardinality(RemoteNames(st, dir)) |-> EntryOf(st, Join(dir, f[i]), f[i])] :
     f \in Perms(RemoteNames(st, dir))}

\* Client.Read answers 200 for an object that is a file
RemoteReadOk(st, p) == p \in DOMAIN st /\ st[p].kind = "file"

\* Client.Write (PUT content) replaces the whole object
RemoteWriteOk(st, p) == p \in DOMAIN st /\ st[p].kind # "dir"

\* a store that overwrites the object's head and keeps what lies beyond it
RemoteWrite_Merge(st, p, buf, t) ==
  [st EXCEPT ![p] = FileObj(buf \o Drop(st[p].content, Len(buf)), t)]

RemoteWrite(st, p, buf, t) == [st EXCEPT ![p] = FileObj(buf, t)]

\* Client.Mkdir (POST folders)
RemoteMkdirOk(st, p) == p \in DOMAIN st /\ st[p].kind = "none"

RemoteMkdir(st, p, t) == [st EXCEPT ![p] = DirObj(t)]

\* Client.Delete
RemoteDeleteOk(st, p) == p \in DOMAIN st

RemoteDelete(st, p) == [st EXCEPT ![p] = NoObj]

(***************************************************************************)
(* State.                                                                  *)
(***************************************************************************)
VARIABLES
  readOnly,   \* cfg.Mount.ReadOnly
  store,      \* the remote store: path -> object
  children,   \* root.children: name -> node
  infos,      \* the api.FileInfo cells nodes point to
  handles,    \* the koneksiFileHandles handed to the kernel
  now,        \* the clock: time.Now() and the server's stamps
  pc,         \* per worker: where its call stands
  loc,        \* per worker: the locals of its call
  last,       \* the call that returned last, with what it returned
  prev,       \* the call that returned before it, when the two are Related
  opsLeft,    \* calls still to be issued
  mu,         \* the koneksiNode.mu locks held: who holds which node's, and how
  ctx,        \* the call whose context has been cancelled (0: none)
  umask       \* cfg.Mount.Umask: the permission bits the mount is configured to mask

vars == <<readOnly, store, children, infos, handles, now, pc, loc, last, prev, opsLeft,
         mu, ctx, umask>>

(***************************************************************************)
(* Nodes, FileInfo cells and handles.  A koneksiNode holds a pointer to an *)
(* api.FileInfo; cells of infos are those pointees, so that two nodes that *)
(* hold the same pointer share one cell.                                   *)
(***************************************************************************)
InfoIds == 0..(Cardinality(Names) + MaxOps)

RootInfoId == 0

NoInfo == [Name |-> "", Size |-> -1, IsDir |-> FALSE, Modified |-> -1]

RootInfo == [Name |-> "", Size |-> 0, IsDir |-> TRUE, Modified |-> 0]

NoNode == [path |-> "", info |-> -1]

RootNode == [path |-> RootPath, info |-> RootInfoId]

NewNode(p, i) == [path |-> p, info |-> i]

NewHandle(n, fl) == [node |-> n, flags |-> fl]

\* the cells some node of the tree, some open handle or some call in flight
\* points to
UsedInfos(ch, hs) ==
  {RootInfoId} \cup {ch[nm].info : nm \in {x \in Names : ch[x] # NoNode}}
               \cup {h.node.info : h \in hs}
               \cup {loc[w].node.info : w \in {x \in Workers : loc[x].node.info >= 0}}

\* a fresh cell (Go's allocator): the first one nothing points to
FreshInfo(ch, hs) ==
  CHOOSE i \in InfoIds \ UsedInfos(ch, hs) : \A j \in InfoIds \ UsedInfos(ch, hs) : i <= j

\* cells nothing points to any more are collected
Collect(inf, ch, hs) ==
  [i \in InfoIds |-> IF i \in UsedInfos(ch, hs) THEN inf[i] ELSE NoInfo]

(***************************************************************************)
(* The attribute translation.                                              *)
(***************************************************************************)
\* permission bits, as the set of the bits that are on
PermBits == {"ur", "uw", "ux", "gr", "gw", "gx", "or", "ow", "ox"}

\* the two literals of setAttr
Mode0755 == PermBits \ {"gw", "ow"}

Mode0644 == {"ur", "uw", "gr", "or"}

\* mount.umask: the default the configuration sets, and a stricter one
Umask0022 == {"gw", "ow"}

Umask0077 == {"gr", "gw", "gx", "or", "ow", "ox"}

Umasks == {Umask0022, Umask0077}

\* cfg.Mount.UID and cfg.Mount.GID: fixed when the filesystem is built
MountUID == "uid"

MountGID == "gid"

\* koneksiNode.stableAttr
stableAttr(info) == IF info.IsDir THEN S_IFDIR ELSE S_IFREG

\* koneksiNode.setAttr
setAttr(info) ==
  [Size |-> info.Size, Mtime |-> info.Modified, Ctime |-> info.Modified,
   Atime |-> info.Modified,
   Type |-> IF info.IsDir THEN S_IFDIR ELSE S_IFREG,
   Perm |-> IF info.IsDir THEN Mode0755 ELSE Mode0644,
   Uid |-> MountUID, Gid |-> MountGID]

NoAttr ==
  [Size |-> -1, Mtime |-> -1, Ctime |-> -1, Atime |-> -1, Type |-> "", Perm |-> {},
   Uid |-> "", Gid |-> ""]

(***************************************************************************)
(* Streams (io.CopyN, io.ReadFull) over the body of a remote read.         *)
(***************************************************************************)
\* io.CopyN(dst, reader, n): copies min(n, rest) bytes; io.EOF when fewer than n
CopyN(stream, n) ==
  [copied |-> Take(stream, n), rest |-> Drop(stream, n), eof |-> Len(stream) < n]

\* io.ReadFull(reader, dest): fills dest as far as the stream goes
ReadFull(stream, len) == Take(stream, len)

\* Read without the skip to the offset
ReadBody_NoSkip(body, off, len) == ReadFull(body, len)

\* koneksiFileHandle.Read once Client.Read has answered with body
ReadBody(body, off, len) ==
  IF off > 0 /\ CopyN(body, off).eof
    THEN <<>>
    ELSE ReadFull(IF off > 0 THEN CopyN(body, off).rest ELSE body, len)

\* Write without tempFile.Seek(0, 0): the upload starts at the end of the temp file
WriteBuffer_NoSeek(body, off, data) == <<>>

\* a temp file padded with zero bytes up to the offset
WriteBuffer_Pad(body, off, data) ==
  IF off > 0
    THEN Take(body, off) \o [i \in 1..(off - Min(off, Len(body))) |-> 0] \o data
    ELSE data

\* koneksiFileHandle.Write: the temp file that is uploaded
WriteBuffer(body, off, data) ==
  IF off > 0 THEN CopyN(body, off).copied \o data ELSE data

\* the cached size koneksiFileHandle.Write records
WrittenSize(off, n) == off + n

\* Open testing O_WRONLY alone
WantsWrite_WriteOnly(flags) == (flags % 2) = O_WRONLY

\* Open's test of the access mode: flags & (O_WRONLY|O_RDWR) != 0
WantsWrite(flags) == (flags % 4) \in {O_WRONLY, O_RDWR, O_WRONLY + O_RDWR}

(***************************************************************************)
(* Calls: their results and their locals.                                  *)
(***************************************************************************)
\* A call's result: what it was (op, name, node, flags, off, len, data), what
\* it returned (errno, attr, mode, entries, bytes, written), the remote calls
\* it issued (calls; failed: one of them failed), and what it found when it
\* started (old, oldInfo, stale) or uploaded (buf, stamp).
NoRes ==
  [op |-> "", name |-> "", node |-> NoNode, flags |-> 0, off |-> 0, len |-> 0,
   data |-> <<>>, errno |-> "", attr |-> NoAttr, mode |-> "", entries |-> <<>>,
   bytes |-> <<>>, written |-> 0, buf |-> <<>>, failed |-> FALSE,
   old |-> NoObj, oldInfo |-> NoInfo, stale |-> FALSE, stamp |-> 0,
   calls |-> <<>>]

IdleLoc ==
  [op |-> "", name |-> "", node |-> NoNode, flags |-> 0, off |-> 0,
   data |-> <<>>, files |-> <<>>, file |-> NoInfo, buf |-> <<>>,
   old |-> NoObj, oldInfo |-> NoInfo, stale |-> FALSE, stamp |-> 0,
   i |-> 0, cell |-> -1]

\* the nodes the kernel can address: the root and the children it caches
KnownNodes == {RootNode} \cup {children[nm] : nm \in {x \in Names : children[x] # NoNode}}

\* whether node n has been dropped from the tree and nothing took its name
Dropped(n) == \A nm \in Names : children[nm] = NoNode \/ children[nm].path # n.path

InitCommon ==
  /\ readOnly \in BOOLEAN
  /\ store \in InitStores
  /\ children = [nm \in Names |-> NoNode]
  /\ infos = [i \in InfoIds |-> IF i = RootInfoId THEN RootInfo ELSE NoInfo]
  /\ handles = {}
  /\ now = 1
  /\ pc = [w \in Workers |-> "idle"]
  /\ loc = [w \in Workers |-> IdleLoc]
  /\ last = NoRes
  /\ prev = NoRes
  /\ mu = {}
  /\ ctx = 0

\* a mount with the umask the configuration defaults to
Init == InitCommon /\ opsLeft = MaxOps /\ umask = Umask0022

\* worker w starts a call
Begin(w) == pc[w] = "idle" /\ opsLeft > 0

\* the pairs of consecutive calls whose results are compared: a listing or a
\* removal and the lookup after it, a write and the read or write after it
Related ==
  {<<"Readdir", "Lookup">>, <<"Unlink", "Lookup">>, <<"Rmdir", "Lookup">>,
   <<"Write", "Read">>, <<"Write", "Write">>}

\* what is kept of call l once call r has returned after it
Brief(l, r) ==
  IF <<l.op, r.op>> \in Related
    THEN [NoRes EXCEPT !.op = l.op, !.name = l.name, !.node = l.node,
                       !.errno = l.errno, !.entries = l.entries, !.off = l.off,
                       !.data = l.data, !.buf = l.buf, !.stamp = l.stamp,
                       !.failed = l.failed]
    ELSE NoRes

\* worker w's call returns r
Finish(w, r) ==
  /\ pc' = [pc EXCEPT ![w] = "idle"]
  /\ loc' = [loc EXCEPT ![w] = IdleLoc]
  /\ last' = r
  /\ prev' = Brief(last, r)

\* worker w's call goes on at label with locals l
Goto(w, label, l) ==
  /\ pc' = [pc EXCEPT ![w] = label]
  /\ loc' = [loc EXCEPT ![w] = l]
  /\ UNCHANGED <<last, prev>>

(***************************************************************************)
(* koneksiNode.mu, a sync.RWMutex per node.  Under Spec and SpecConc a     *)
(* critical section is one step and mu stays empty; under SpecLock Lock,   *)
(* RLock and the statements they guard are steps of their own.             *)
(***************************************************************************)
\* worker w holding node n's mu, shared ("R") or exclusive ("W")
Held(w, n, mode) == [w |-> w, node |-> n, mode |-> mode]

\* n.mu.Lock() returns once nobody holds n.mu
CanLock(n) == \A l \in mu : l.node # n

\* an RLock that does not wait for the writer
CanRLock_NoWait(n) == TRUE

\* n.mu.RLock() returns once nobody holds n.mu exclusively
CanRLock(n) == \A l \in mu : l.node = n => l.mode = "R"

(***************************************************************************)
(* koneksiNode.Lookup                                                      *)
(***************************************************************************)
\* the errno Lookup returns when Client.List fails
LookupListErrno == ENOENT

\* Lookup that lists the remote directory whether or not the name is cached
LookupStart_AlwaysList(w, name) ==
  /\ Begin(w)
  /\ opsLeft' = opsLeft - 1
  /\ Goto(w, "lookup_list", [IdleLoc EXCEPT !.op = "Lookup", !.name = name,
                                            !.node = RootNode])
  /\ UNCHANGED <<mu, ctx, readOnly, umask, store, children, infos, handles, now>>

LookupStart(w, name) ==
  /\ Begin(w)
  /\ opsLeft' = opsLeft - 1
  /\ IF children[name] # NoNode
       THEN Finish(w, [NoRes EXCEPT !.op = "Lookup", !.name = name,
                         !.node = children[name], !.errno = OK,
                         !.attr = setAttr(infos[children[name].info]),
                         !.mode = stableAttr(infos[children[name].info])])
       ELSE Goto(w, "lookup_list", [IdleLoc EXCEPT !.op = "Lookup", !.name = name,
                                      !.node = RootNode])
  /\ UNCHANGED <<mu, ctx, readOnly, umask, store, children, infos, handles, now>>

\* the first entry of files called name, or NoInfo
FindEntry(files, name) ==
  IF \E i \in 1..Len(files) : files[i].Name = name
    THEN files[CHOOSE i \in 1..Len(files) :
                 files[i].Name = name /\ \A j \in 1..(i - 1) : files[j].Name # name]
    ELSE NoInfo

\* Lookup that takes a miss in the children map for the answer
LookupList_CacheOnly(w) ==
  /\ pc[w] = "lookup_list"
  /\ Finish(w, [NoRes EXCEPT !.op = "Lookup", !.name = loc[w].name, !.errno = ENOENT])
  /\ UNCHANGED <<mu, ctx, readOnly, umask, store, children, infos, handles, now, opsLeft>>

LookupList(w) ==
  /\ pc[w] = "lookup_list"
  /\ \/ Finish(w, [NoRes EXCEPT !.op = "Lookup", !.name = loc[w].name,
                     !.errno = LookupListErrno, !.failed = TRUE,
                     !.calls = <<"List">>])
     \/ \E files \in RemoteList(store, loc[w].node.path) :
          IF FindEntry(files, loc[w].name) # NoInfo
            THEN Goto(w, "lookup_insert",
                      [loc[w] EXCEPT !.file = FindEntry(files, loc[w].name)])
            ELSE Finish(w, [NoRes EXCEPT !.op = "Lookup", !.name = loc[w].name,
                              !.errno = ENOENT, !.calls = <<"List">>])
  /\ UNCHANGED <<mu, ctx, readOnly, umask, store, children, infos, handles, now, opsLeft>>

\* the insert of the child found, from label at, releasing the locks held
LookupInsertFrom(w, at, held) ==
  /\ pc[w] = at
  /\ mu' = mu \ held
  /\ LET name == loc[w].name
         id == FreshInfo(children, handles)
         child == NewNode(Join(loc[w].node.path, name), id)
     IN /\ children' = [children EXCEPT ![name] = child]
        /\ infos' = Collect([infos EXCEPT ![id] = loc[w].file], children', handles)
        /\ Finish(w, [NoRes EXCEPT !.op = "Lookup", !.name = name, !.node = child,
                        !.errno = OK, !.attr = setAttr(loc[w].file),
                        !.mode = stableAttr(loc[w].file), !.calls = <<"List">>])
  /\ UNCHANGED <<ctx, readOnly, umask, store, handles, now, opsLeft>>

LookupInsert(w) == LookupInsertFrom(w, "lookup_insert", {})

\* Lookup, lock by lock: n.mu.RLock()
LookupBegin(w, name) ==
  /\ Begin(w)
  /\ opsLeft' = opsLeft - 1
  /\ Goto(w, "lookup_rlock", [IdleLoc EXCEPT !.op = "Lookup", !.name = name,
                                             !.node = RootNode])
  /\ UNCHANGED <<mu, ctx, readOnly, umask, store, children, infos, handles, now>>

LookupRLock(w) ==
  /\ pc[w] = "lookup_rlock"
  /\ CanRLock(loc[w].node)
  /\ mu' = mu \cup {Held(w, loc[w].node, "R")}
  /\ Goto(w, "lookup_rlocked", loc[w])
  /\ UNCHANGED <<ctx, readOnly, umask, store, children, infos, handles, now, opsLeft>>

\* child, ok := n.children[name]; n.mu.RUnlock()
LookupRead(w) ==
  /\ pc[w] = "lookup_rlocked"
  /\ mu' = mu \ {Held(w, loc[w].node, "R")}
  /\ IF children[loc[w].name] # NoNode
       THEN Goto(w, "lookup_hit", [loc[w] EXCEPT !.node = children[loc[w].name]])
       ELSE Goto(w, "lookup_list", loc[w])
  /\ UNCHANGED <<ctx, readOnly, umask, store, children, infos, handles, now, opsLeft>>

\* the cache hit: setAttr and stableAttr read child.info, with no lock held
LookupHit(w) ==
  /\ pc[w] = "lookup_hit"
  /\ Finish(w, [NoRes EXCEPT !.op = "Lookup", !.name = loc[w].name,
                  !.node = loc[w].node, !.errno = OK,
                  !.attr = setAttr(infos[loc[w].node.info]),
                  !.mode = stableAttr(infos[loc[w].node.info])])
  /\ UNCHANGED <<mu, ctx, readOnly, umask, store, children, infos, handles, now, opsLeft>>

\* n.mu.Lock() before the insert
LookupLock(w) ==
  /\ pc[w] = "lookup_insert"
  /\ CanLock(loc[w].node)
  /\ mu' = mu \cup {Held(w, loc[w].node, "W")}
  /\ Goto(w, "lookup_locked", loc[w])
  /\ UNCHANGED <<ctx, readOnly, umask, store, children, infos, handles, now, opsLeft>>

\* n.children[name] = child; n.mu.Unlock()
LookupStore(w) == LookupInsertFrom(w, "lookup_locked", {Held(w, loc[w].node, "W")})

(***************************************************************************)
(* koneksiNode.Readdir                                                     *)
(***************************************************************************)
\* the fuse.DirEntry Readdir appends for one listing entry
DirEntry(file) == [Name |-> file.Name, Mode |-> IF file.IsDir THEN S_IFDIR ELSE S_IFREG]

\* The cell a child built in iteration i of `for _, file := range files` points
\* to with info: &file.  Under Go 1.21 (the toolchain the build workflow sets) file
\* is one variable for the whole loop: every child points to it, and it holds
\* the last entry once the loop is over.
LoopVarValue(files, i) == files[Len(files)]

ReaddirStart(w, n) ==
  /\ Begin(w)
  /\ opsLeft' = opsLeft - 1
  /\ IF ~infos[n.info].IsDir
       THEN Finish(w, [NoRes EXCEPT !.op = "Readdir", !.node = n, !.errno = ENOTDIR])
       ELSE \/ Finish(w, [NoRes EXCEPT !.op = "Readdir", !.node = n, !.errno = EIO,
                            !.failed = TRUE, !.calls = <<"List">>])
            \/ \E files \in RemoteList(store, n.path) :
                 Goto(w, "readdir_rebuild",
                      [IdleLoc EXCEPT !.op = "Readdir", !.node = n, !.files = files])
  /\ UNCHANGED <<mu, ctx, readOnly, umask, store, children, infos, handles, now>>

ReaddirRebuild(w) ==
  /\ pc[w] = "readdir_rebuild"
  /\ LET n == loc[w].node
         files == loc[w].files
         id == FreshInfo([nm \in Names |-> NoNode], handles)
         rebuilt == [nm \in Names |->
                       IF \E i \in 1..Len(files) : files[i].Name = nm
                         THEN NewNode(Join(n.path, nm), id) ELSE NoNode]
     IN /\ IF n = RootNode
             THEN /\ children' = rebuilt
                  /\ infos' = Collect(IF Len(files) > 0
                                        THEN [infos EXCEPT ![id] = LoopVarValue(files, Len(files))]
                                        ELSE infos,
                                      children', handles)
             ELSE UNCHANGED <<children, infos>>
        /\ Finish(w, [NoRes EXCEPT !.op = "Readdir", !.node = n, !.errno = OK,
                        !.entries = [i \in 1..Len(files) |-> DirEntry(files[i])],
                        !.calls = <<"List">>])
  /\ UNCHANGED <<mu, ctx, readOnly, umask, store, handles, now, opsLeft>>

\* Readdir, lock by lock: n.mu.Lock(); n.children = make(...)
ReaddirLock(w) ==
  /\ pc[w] = "readdir_rebuild"
  /\ CanLock(loc[w].node)
  /\ mu' = mu \cup {Held(w, loc[w].node, "W")}
  /\ IF loc[w].node = RootNode
       THEN /\ children' = [nm \in Names |-> NoNode]
            /\ infos' = Collect(infos, children', handles)
       ELSE UNCHANGED <<children, infos>>
  /\ Goto(w, "readdir_loop",
          [loc[w] EXCEPT !.i = 0, !.cell = FreshInfo([nm \in Names |-> NoNode], handles)])
  /\ UNCHANGED <<ctx, readOnly, umask, store, handles, now, opsLeft>>

\* one iteration of the loop: file takes the next entry, the child built points to it
ReaddirIter(w) ==
  /\ pc[w] = "readdir_loop"
  /\ loc[w].i < Len(loc[w].files)
  /\ LET n == loc[w].node
         file == loc[w].files[loc[w].i + 1]
     IN IF n = RootNode
          THEN /\ infos' = [infos EXCEPT ![loc[w].cell] = file]
               /\ children' = [children EXCEPT ![file.Name] =
                                  NewNode(Join(n.path, file.Name), loc[w].cell)]
          ELSE UNCHANGED <<children, infos>>
  /\ Goto(w, "readdir_loop", [loc[w] EXCEPT !.i = loc[w].i + 1])
  /\ UNCHANGED <<mu, ctx, readOnly, umask, store, handles, now, opsLeft>>

\* the loop is over: n.mu.Unlock() and return
ReaddirDone(w) ==
  /\ pc[w] = "readdir_loop"
  /\ loc[w].i = Len(loc[w].files)
  /\ mu' = mu \ {Held(w, loc[w].node, "W")}
  /\ Finish(w, [NoRes EXCEPT !.op = "Readdir", !.node = loc[w].node, !.errno = OK,
                  !.entries = [i \in 1..Len(loc[w].files) |-> DirEntry(loc[w].files[i])],
                  !.calls = <<"List">>])
  /\ UNCHANGED <<ctx, readOnly, umask, store, children, infos, handles, now, opsLeft>>

(***************************************************************************)
(* koneksiNode.Getattr and koneksiNode.Open                                *)
(***************************************************************************)
\* Getattr that asks the remote store for the object's entry first
Getattr_Refresh(w, n) ==
  /\ Begin(w)
  /\ opsLeft' = opsLeft - 1
  /\ Finish(w, [NoRes EXCEPT !.op = "Getattr", !.node = n, !.errno = OK,
                  !.attr = setAttr(IF n.path \in DOMAIN store /\ store[n.path].kind # "none"
                                     THEN EntryOf(store, n.path, infos[n.info].Name)
                                     ELSE infos[n.info]),
                  !.calls = <<"List">>])
  /\ UNCHANGED <<mu, ctx, readOnly, umask, store, children, infos, handles, now>>

Getattr(w, n) ==
  /\ Begin(w)
  /\ opsLeft' = opsLeft - 1
  /\ Finish(w, [NoRes EXCEPT !.op = "Getattr", !.node = n, !.errno = OK,
                  !.attr = setAttr(infos[n.info])])
  /\ UNCHANGED <<mu, ctx, readOnly, umask, store, children, infos, handles, now>>

\* Getattr as the call and the read it makes of n.info, with no lock held
GetattrBegin(w, n) ==
  /\ Begin(w)
  /\ opsLeft' = opsLeft - 1
  /\ Goto(w, "getattr_read", [IdleLoc EXCEPT !.op = "Getattr", !.node = n])
  /\ UNCHANGED <<mu, ctx, readOnly, umask, store, children, infos, handles, now>>

GetattrRead(w) ==
  /\ pc[w] = "getattr_read"
  /\ Finish(w, [NoRes EXCEPT !.op = "Getattr", !.node = loc[w].node, !.errno = OK,
                  !.attr = setAttr(infos[loc[w].node.info])])
  /\ UNCHANGED <<mu, ctx, readOnly, umask, store, children, infos, handles, now, opsLeft>>

\* Open that does not look at the node's kind
Open_NoKindCheck(w, n, flags) ==
  /\ Begin(w)
  /\ opsLeft' = opsLeft - 1
  /\ IF readOnly /\ WantsWrite(flags)
       THEN /\ Finish(w, [NoRes EXCEPT !.op = "Open", !.node = n, !.flags = flags,
                            !.errno = EROFS])
            /\ UNCHANGED handles
       ELSE /\ handles' = handles \cup {NewHandle(n, flags)}
            /\ Finish(w, [NoRes EXCEPT !.op = "Open", !.node = n, !.flags = flags,
                            !.errno = OK])
  /\ UNCHANGED <<mu, ctx, readOnly, umask, store, children, infos, now>>

Open(w, n, flags) ==
  /\ Begin(w)
  /\ opsLeft' = opsLeft - 1
  /\ IF infos[n.info].IsDir
       THEN /\ Finish(w, [NoRes EXCEPT !.op = "Open", !.node = n, !.flags = flags,
                            !.errno = EISDIR])
            /\ UNCHANGED handles
       ELSE IF readOnly /\ WantsWrite(flags)
         THEN /\ Finish(w, [NoRes EXCEPT !.op = "Open", !.node = n, !.flags = flags,
                              !.errno = EROFS])
              /\ UNCHANGED handles
         ELSE /\ handles' = handles \cup {NewHandle(n, flags)}
              /\ Finish(w, [NoRes EXCEPT !.op = "Open", !.node = n, !.flags = flags,
                              !.errno = OK])
  /\ UNCHANGED <<mu, ctx, readOnly, umask, store, children, infos, now>>

(***************************************************************************)
(* koneksiNode.Create and koneksiNode.Mkdir                                *)
(***************************************************************************)
\* Create that goes on to the insert whatever Client.Write answered
CreateStart_IgnoreError(w, name, flags) ==
  /\ Begin(w)
  /\ opsLeft' = opsLeft - 1
  /\ LET childPath == Join(RootPath, name)
         l == [IdleLoc EXCEPT !.op = "Create", !.name = name, !.node = RootNode,
                              !.flags = flags]
     IN IF readOnly
          THEN /\ Finish(w, [NoRes EXCEPT !.op = "Create", !.name = name,
                               !.flags = flags, !.errno = EROFS])
               /\ UNCHANGED <<store, now>>
          ELSE \/ /\ Goto(w, "create_insert", l)
                  /\ UNCHANGED <<store, now>>
               \/ /\ RemoteWriteOk(store, childPath)
                  /\ store' = RemoteWrite(store, childPath, <<>>, now)
                  /\ now' = now + 1
                  /\ Goto(w, "create_insert", l)
  /\ UNCHANGED <<mu, ctx, readOnly, umask, children, infos, handles>>

CreateStart(w, name, flags) ==
  /\ Begin(w)
  /\ opsLeft' = opsLeft - 1
  /\ LET childPath == Join(RootPath, name)
     IN IF readOnly
          THEN /\ Finish(w, [NoRes EXCEPT !.op = "Create", !.name = name,
                               !.flags = flags, !.errno = EROFS])
               /\ UNCHANGED <<store, now>>
          ELSE \/ /\ Finish(w, [NoRes EXCEPT !.op = "Create", !.name = name,
                                  !.flags = flags, !.errno = EIO, !.failed = TRUE,
                                  !.calls = <<"Write">>])
                  /\ UNCHANGED <<store, now>>
               \/ /\ RemoteWriteOk(store, childPath)
                  /\ store' = RemoteWrite(store, childPath, <<>>, now)
                  /\ now' = now + 1
                  /\ Goto(w, "create_insert",
                          [IdleLoc EXCEPT !.op = "Create", !.name = name,
                                          !.node = RootNode, !.flags = flags])
  /\ UNCHANGED <<mu, ctx, readOnly, umask, children, infos, handles>>

\* the insert of the new file, from label at, releasing the locks held
CreateInsertFrom(w, at, held) ==
  /\ pc[w] = at
  /\ mu' = mu \ held
  /\ LET name == loc[w].name
         info == [Name |-> name, Size |-> 0, IsDir |-> FALSE, Modified |-> now]
         id == FreshInfo(children, handles)
         child == NewNode(Join(loc[w].node.path, name), id)
     IN /\ children' = [children EXCEPT ![name] = child]
        /\ handles' = handles \cup {NewHandle(child, loc[w].flags)}
        /\ infos' = Collect([infos EXCEPT ![id] = info], children', handles')
        /\ now' = now + 1
        /\ Finish(w, [NoRes EXCEPT !.op = "Create", !.name = name, !.node = child,
                        !.flags = loc[w].flags, !.errno = OK, !.attr = setAttr(info),
                        !.mode = stableAttr(info), !.calls = <<"Write">>])
  /\ UNCHANGED <<ctx, readOnly, umask, store, opsLeft>>

CreateInsert(w) == CreateInsertFrom(w, "create_insert", {})

\* Create, lock by lock: n.mu.Lock()
CreateLock(w) ==
  /\ pc[w] = "create_insert"
  /\ CanLock(loc[w].node)
  /\ mu' = mu \cup {Held(w, loc[w].node, "W")}
  /\ Goto(w, "create_locked", loc[w])
  /\ UNCHANGED <<ctx, readOnly, umask, store, children, infos, handles, now, opsLeft>>

\* Create that returns without n.mu.Unlock()
CreateStore_NoUnlock(w) == CreateInsertFrom(w, "create_locked", {})

\* n.children[name] = child; n.mu.Unlock()
CreateStore(w) == CreateInsertFrom(w, "create_locked", {Held(w, loc[w].node, "W")})

MkdirStart(w, name) ==
  /\ Begin(w)
  /\ opsLeft' = opsLeft - 1
  /\ LET childPath == Join(RootPath, name)
     IN IF readOnly
          THEN /\ Finish(w, [NoRes EXCEPT !.op = "Mkdir", !.name = name, !.errno = EROFS])
               /\ UNCHANGED <<store, now>>
          ELSE \/ /\ Finish(w, [NoRes EXCEPT !.op = "Mkdir", !.name = name,
                                  !.errno = EIO, !.failed = TRUE,
                                  !.calls = <<"Mkdir">>])
                  /\ UNCHANGED <<store, now>>
               \/ /\ RemoteMkdirOk(store, childPath)
                  /\ store' = RemoteMkdir(store, childPath, now)
                  /\ now' = now + 1
                  /\ Goto(w, "mkdir_insert",
                          [IdleLoc EXCEPT !.op = "Mkdir", !.name = name, !.node = RootNode])
  /\ UNCHANGED <<mu, ctx, readOnly, umask, children, infos, handles>>

\* the insert of the new directory, from label at, releasing the locks held
MkdirInsertFrom(w, at, held) ==
  /\ pc[w] = at
  /\ mu' = mu \ held
  /\ LET name == loc[w].name
         info == [Name |-> name, Size |-> 0, IsDir |-> TRUE, Modified |-> now]
         id == FreshInfo(children, handles)
         child == NewNode(Join(loc[w].node.path, name), id)
     IN /\ children' = [children EXCEPT ![name] = child]
        /\ infos' = Collect([infos EXCEPT ![id] = info], children', handles)
        /\ now' = now + 1
        /\ Finish(w, [NoRes EXCEPT !.op = "Mkdir", !.name = name, !.node = child,
                        !.errno = OK, !.attr = setAttr(info), !.mode = stableAttr(info),
                        !.calls = <<"Mkdir">>])
  /\ UNCHANGED <<ctx, readOnly, umask, store, handles, opsLeft>>

MkdirInsert(w) == MkdirInsertFrom(w, "mkdir_insert", {})

\* Mkdir, lock by lock: n.mu.Lock()
MkdirLock(w) ==
  /\ pc[w] = "mkdir_insert"
  /\ CanLock(loc[w].node)
  /\ mu' = mu \cup {Held(w, loc[w].node, "W")}
  /\ Goto(w, "mkdir_locked", loc[w])
  /\ UNCHANGED <<ctx, readOnly, umask, store, children, infos, handles, now, opsLeft>>

\* n.children[name] = child; n.mu.Unlock()
MkdirStore(w) == MkdirInsertFrom(w, "mkdir_locked", {Held(w, loc[w].node, "W")})

(***************************************************************************)
(* koneksiNode.Unlink and koneksiNode.Rmdir (which calls Unlink)           *)
(***************************************************************************)
RemoveOps == {"Unlink", "Rmdir"}

\* Unlink that drops the child from the map before it calls Client.Delete
UnlinkStart_RemoveFirst(w, op, name) ==
  /\ Begin(w)
  /\ opsLeft' = opsLeft - 1
  /\ LET childPath == Join(RootPath, name)
         dropped == [children EXCEPT ![name] = NoNode]
     IN IF readOnly
          THEN /\ Finish(w, [NoRes EXCEPT !.op = op, !.name = name, !.errno = EROFS])
               /\ UNCHANGED <<store, children, infos>>
          ELSE /\ children' = dropped
               /\ infos' = Collect(infos, dropped, handles)
               /\ \/ /\ Finish(w, [NoRes EXCEPT !.op = op, !.name = name, !.errno = EIO,
                                       !.failed = TRUE, !.calls = <<"Delete">>])
                     /\ UNCHANGED store
                  \/ /\ RemoteDeleteOk(store, childPath)
                     /\ store' = RemoteDelete(store, childPath)
                     /\ Goto(w, "unlink_remove",
                             [IdleLoc EXCEPT !.op = op, !.name = name, !.node = RootNode])
  /\ UNCHANGED <<mu, ctx, readOnly, umask, handles, now>>

UnlinkStart(w, op, name) ==
  /\ Begin(w)
  /\ opsLeft' = opsLeft - 1
  /\ LET childPath == Join(RootPath, name)
     IN IF readOnly
          THEN /\ Finish(w, [NoRes EXCEPT !.op = op, !.name = name, !.errno = EROFS])
               /\ UNCHANGED store
          ELSE \/ /\ Finish(w, [NoRes EXCEPT !.op = op, !.name = name, !.errno = EIO,
                                  !.failed = TRUE, !.calls = <<"Delete">>])
                  /\ UNCHANGED store
               \/ /\ RemoteDeleteOk(store, childPath)
                  /\ store' = RemoteDelete(store, childPath)
                  /\ Goto(w, "unlink_remove",
                          [IdleLoc EXCEPT !.op = op, !.name = name, !.node = RootNode])
  /\ UNCHANGED <<mu, ctx, readOnly, umask, children, infos, handles, now>>

\* Unlink that leaves the child in the map
UnlinkRemove_Keep(w) ==
  /\ pc[w] = "unlink_remove"
  /\ Finish(w, [NoRes EXCEPT !.op = loc[w].op, !.name = loc[w].name, !.errno = OK,
                  !.calls = <<"Delete">>])
  /\ UNCHANGED <<mu, ctx, readOnly, umask, store, children, infos, handles, now, opsLeft>>

\* the removal of the child from the map, from label at, releasing the locks held
UnlinkRemoveFrom(w, at, held) ==
  /\ pc[w] = at
  /\ mu' = mu \ held
  /\ children' = [children EXCEPT ![loc[w].name] = NoNode]
  /\ infos' = Collect(infos, children', handles)
  /\ Finish(w, [NoRes EXCEPT !.op = loc[w].op, !.name = loc[w].name, !.errno = OK,
                  !.calls = <<"Delete">>])
  /\ UNCHANGED <<ctx, readOnly, umask, store, handles, now, opsLeft>>

UnlinkRemove(w) == UnlinkRemoveFrom(w, "unlink_remove", {})

\* Unlink, lock by lock: n.mu.Lock()
UnlinkLock(w) ==
  /\ pc[w] = "unlink_remove"
  /\ CanLock(loc[w].node)
  /\ mu' = mu \cup {Held(w, loc[w].node, "W")}
  /\ Goto(w, "unlink_locked", loc[w])
  /\ UNCHANGED <<ctx, readOnly, umask, store, children, infos, handles, now, opsLeft>>

\* delete(n.children, name); n.mu.Unlock()
UnlinkDelete(w) == UnlinkRemoveFrom(w, "unlink_locked", {Held(w, loc[w].node, "W")})

(***************************************************************************)
(* koneksiFileHandle.Read                                                  *)
(***************************************************************************)
Read(w, h, len, off) ==
  /\ Begin(w)
  /\ opsLeft' = opsLeft - 1
  /\ LET r == [NoRes EXCEPT !.op = "Read", !.node = h.node, !.off = off, !.len = len,
                            !.old = store[h.node.path], !.stale = Dropped(h.node),
                            !.calls = <<"Read">>]
     IN \/ Finish(w, [r EXCEPT !.errno = EIO, !.failed = TRUE])
        \/ /\ RemoteReadOk(store, h.node.path)
           /\ Finish(w, [r EXCEPT !.errno = OK,
                           !.bytes = ReadBody(store[h.node.path].content, off, len)])
  /\ UNCHANGED <<mu, ctx, readOnly, umask, store, children, infos, handles, now>>

(***************************************************************************)
(* koneksiFileHandle.Write                                                 *)
(***************************************************************************)
WriteStart(w, h, data, off) ==
  /\ Begin(w)
  /\ opsLeft' = opsLeft - 1
  /\ LET r == [NoRes EXCEPT !.op = "Write", !.node = h.node, !.off = off, !.data = data,
                            !.old = store[h.node.path], !.oldInfo = infos[h.node.info],
                            !.stale = Dropped(h.node)]
     IN IF readOnly
          THEN Finish(w, [r EXCEPT !.errno = EROFS])
          ELSE \/ Finish(w, [r EXCEPT !.errno = EIO, !.failed = TRUE,
                                      !.calls = IF off > 0 THEN <<"Read">> ELSE <<>>])
               \/ /\ off > 0 => RemoteReadOk(store, h.node.path)
                  /\ Goto(w, "write_upload",
                          [IdleLoc EXCEPT !.op = "Write", !.node = h.node, !.off = off,
                                          !.data = data, !.old = r.old,
                                          !.oldInfo = r.oldInfo, !.stale = r.stale,
                                          !.buf = WriteBuffer(store[h.node.path].content,
                                                              off, data)])
  /\ UNCHANGED <<mu, ctx, readOnly, umask, store, children, infos, handles, now>>

\* what a Write in flight returns
WriteRes(l) ==
  [NoRes EXCEPT !.op = "Write", !.node = l.node, !.off = l.off, !.data = l.data,
                !.buf = l.buf, !.old = l.old, !.oldInfo = l.oldInfo, !.stale = l.stale,
                !.stamp = l.stamp,
                !.calls = IF l.off > 0 THEN <<"Read", "Write">> ELSE <<"Write">>]

\* Write that goes on to the size update whatever Client.Write answered
WriteUpload_IgnoreError(w) ==
  /\ pc[w] = "write_upload"
  /\ \/ /\ Goto(w, "write_update", loc[w])
        /\ UNCHANGED <<store, now>>
     \/ /\ RemoteWriteOk(store, loc[w].node.path)
        /\ store' = RemoteWrite(store, loc[w].node.path, loc[w].buf, now)
        /\ now' = now + 1
        /\ Goto(w, "write_update", [loc[w] EXCEPT !.stamp = now])
  /\ UNCHANGED <<mu, ctx, readOnly, umask, children, infos, handles, opsLeft>>

WriteUpload(w) ==
  /\ pc[w] = "write_upload"
  /\ \/ /\ Finish(w, [WriteRes(loc[w]) EXCEPT !.errno = EIO, !.failed = TRUE])
        /\ UNCHANGED <<store, now>>
     \/ /\ RemoteWriteOk(store, loc[w].node.path)
        /\ store' = RemoteWrite(store, loc[w].node.path, loc[w].buf, now)
        /\ now' = now + 1
        /\ Goto(w, "write_update", [loc[w] EXCEPT !.stamp = now])
  /\ UNCHANGED <<mu, ctx, readOnly, umask, children, infos, handles, opsLeft>>

WriteUpdate(w) ==
  /\ pc[w] = "write_update"
  /\ LET id == loc[w].node.info
         n == Len(loc[w].data)
     IN /\ infos' = [infos EXCEPT ![id].Size = WrittenSize(loc[w].off, n),
                                  ![id].Modified = now]
        /\ now' = now + 1
        /\ Finish(w, [WriteRes(loc[w]) EXCEPT !.errno = OK, !.written = n])
  /\ UNCHANGED <<mu, ctx, readOnly, umask, store, children, handles, opsLeft>>

\* Write's update, lock by lock: fh.node.mu.Lock()
WriteLock(w) ==
  /\ pc[w] = "write_update"
  /\ CanLock(loc[w].node)
  /\ mu' = mu \cup {Held(w, loc[w].node, "W")}
  /\ Goto(w, "write_size", loc[w])
  /\ UNCHANGED <<ctx, readOnly, umask, store, children, infos, handles, now, opsLeft>>

\* fh.node.info.Size = off + int64(n)
WriteSize(w) ==
  /\ pc[w] = "write_size"
  /\ infos' = [infos EXCEPT ![loc[w].node.info].Size =
                               WrittenSize(loc[w].off, Len(loc[w].data))]
  /\ Goto(w, "write_mtime", loc[w])
  /\ UNCHANGED <<mu, ctx, readOnly, umask, store, children, handles, now, opsLeft>>

\* fh.node.info.Modified = time.Now(); fh.node.mu.Unlock()
WriteMtime(w) ==
  /\ pc[w] = "write_mtime"
  /\ mu' = mu \ {Held(w, loc[w].node, "W")}
  /\ infos' = [infos EXCEPT ![loc[w].node.info].Modified = now]
  /\ now' = now + 1
  /\ Finish(w, [WriteRes(loc[w]) EXCEPT !.errno = OK, !.written = Len(loc[w].data)])
  /\ UNCHANGED <<ctx, readOnly, umask, store, children, handles, opsLeft>>

(***************************************************************************)
(* The next-state relation.                                                *)
(***************************************************************************)
Step(w) ==
  \/ \E name \in Names : LookupStart(w, name)
  \/ LookupList(w)
  \/ LookupInsert(w)
  \/ \E n \in KnownNodes : ReaddirStart(w, n)
  \/ ReaddirRebuild(w)
  \/ \E n \in KnownNodes : Getattr(w, n)
  \/ \E n \in KnownNodes, flags \in OpenFlags : Open(w, n, flags)
  \/ \E name \in Names, flags \in CreateFlags : CreateStart(w, name, flags)
  \/ CreateInsert(w)
  \/ \E name \in Names : MkdirStart(w, name)
  \/ MkdirInsert(w)
  \/ \E op \in RemoveOps, name \in Names : UnlinkStart(w, op, name)
  \/ UnlinkRemove(w)
  \/ \E h \in handles, len \in 1..MaxReadLen, off \in 0..MaxOff : Read(w, h, len, off)
  \/ \E h \in handles, data \in Datas, off \in 0..MaxOff : WriteStart(w, h, data, off)
  \/ WriteUpload(w)
  \/ WriteUpdate(w)

\* one call at a time
Next == Step(1)

Spec == Init /\ [][Next]_vars

\* the number of the call in flight, calls being numbered as they begin
CallNo == MaxOps - opsLeft

\* the kernel interrupts worker w's call: the context handed to the handler is
\* cancelled. No handler selects on ctx or passes it to the client, whose
\* requests carry no context, so the call goes on from where it is
Cancel(w) ==
  /\ pc[w] # "idle"
  /\ ctx # CallNo
  /\ ctx' = CallNo
  /\ UNCHANGED <<readOnly, umask, store, children, infos, handles, now, pc, loc, last, prev,
                 opsLeft, mu>>

\* one call at a time, interrupted at any point after it began
NextCancel == Step(1) \/ Cancel(1)

SpecCancel == Init /\ [][NextCancel]_vars

\* a mount with any of the umasks
InitAttr == InitCommon /\ opsLeft = MaxOps /\ umask \in Umasks

\* one call at a time, on a mount configured with any umask
SpecAttr == InitAttr /\ [][Next]_vars

\* the offsets concurrent calls use: the start of the file and one beyond it
ConcOffs == {0, MaxOff}

\* the calls of a worker that creates files and uses their handles
FileStep(w) ==
  \/ \E name \in Names, flags \in CreateFlags : CreateStart(w, name, flags)
  \/ CreateInsert(w)
  \/ \E h \in handles, off \in ConcOffs : Read(w, h, MaxReadLen, off)
  \/ \E h \in handles, data \in Datas, off \in ConcOffs : WriteStart(w, h, data, off)
  \/ WriteUpload(w)
  \/ WriteUpdate(w)

\* two workers at once: their calls interleave at every remote call, as nothing
\* in koneksiFileHandle serialises them
NextConc == \E w \in Workers : FileStep(w)

SpecConc == Init /\ [][NextConc]_vars

\* the calls of a worker on the root directory's namespace
DirStep(w) ==
  \/ \E name \in Names : LookupStart(w, name)
  \/ LookupList(w)
  \/ LookupInsert(w)
  \/ ReaddirStart(w, RootNode)
  \/ ReaddirRebuild(w)
  \/ \E name \in Names, flags \in CreateFlags : CreateStart(w, name, flags)
  \/ CreateInsert(w)
  \/ \E name \in Names : MkdirStart(w, name)
  \/ MkdirInsert(w)
  \/ \E name \in Names : UnlinkStart(w, "Unlink", name)
  \/ UnlinkRemove(w)

\* two workers at once on the root: a call's remote call and its update of the
\* children map are separate steps, between which the other worker runs
NextDir == \E w \in Workers : DirStep(w)

SpecDir == Init /\ [][NextDir]_vars

\* the calls of a worker that looks names up, lists the root and adds to it
GrowStep(w) ==
  \/ \E name \in Names : LookupStart(w, name)
  \/ LookupList(w)
  \/ LookupInsert(w)
  \/ ReaddirStart(w, RootNode)
  \/ ReaddirRebuild(w)
  \/ \E name \in Names, flags \in CreateFlags : CreateStart(w, name, flags)
  \/ CreateInsert(w)
  \/ \E name \in Names : MkdirStart(w, name)
  \/ MkdirInsert(w)

\* two workers at once on the root, nothing being removed
NextGrow == \E w \in Workers : GrowStep(w)

SpecGrow == Init /\ [][NextGrow]_vars

\* the payload and the name the lock-level calls use
LockData == <<7>>

LockNames == {"a"}

\* the calls of a worker, cut at every Lock, RLock and unlocked read of a node
LockStep(w) ==
  \/ \E name \in LockNames : LookupBegin(w, name)
  \/ LookupRLock(w)
  \/ LookupRead(w)
  \/ LookupHit(w)
  \/ LookupList(w)
  \/ LookupLock(w)
  \/ LookupStore(w)
  \/ \E n \in KnownNodes : ReaddirStart(w, n)
  \/ ReaddirLock(w)
  \/ ReaddirIter(w)
  \/ ReaddirDone(w)
  \/ \E n \in KnownNodes : GetattrBegin(w, n)
  \/ GetattrRead(w)
  \/ \E name \in LockNames, flags \in CreateFlags : CreateStart(w, name, flags)
  \/ CreateLock(w)
  \/ CreateStore(w)
  \/ \E name \in LockNames : MkdirStart(w, name)
  \/ MkdirLock(w)
  \/ MkdirStore(w)
  \/ \E name \in LockNames : UnlinkStart(w, "Unlink", name)
  \/ UnlinkLock(w)
  \/ UnlinkDelete(w)
  \/ \E h \in handles : Read(w, h, MaxReadLen, 0)
  \/ \E h \in handles : WriteStart(w, h, LockData, 0)
  \/ WriteUpload(w)
  \/ WriteLock(w)
  \/ WriteSize(w)
  \/ WriteMtime(w)

NextLock == \E w \in Workers : LockStep(w)

\* every worker that can take a step eventually takes one: a goroutine that is
\* not blocked runs, and every remote call returns
SpecLock == Init /\ [][NextLock]_vars /\ \A w \in Workers : WF_vars(LockStep(w))

(***************************************************************************)
(* Properties.  last and prev are the two calls that returned last; under  *)
(* Spec calls run one at a time, so prev returned, then last was issued.   *)
(***************************************************************************)
\* no call is in flight: the state is the one the last call returned in
Quiet == \A w \in Workers : pc[w] = "idle"

\* the mode Readdir reported for name in entries
ReportedMode(entries, name) ==
  entries[CHOOSE i \in 1..Len(entries) : entries[i].Name = name].Mode

\* a successful Readdir of the root followed at once by Lookup of a name it returned
ReaddirThenLookup ==
  /\ last.op = "Lookup"
  /\ prev.op = "Readdir" /\ prev.errno = OK /\ prev.node = RootNode
  /\ \E i \in 1..Len(prev.entries) : prev.entries[i].Name = last.name

\* C1: after Readdir(D) has returned successfully, Lookup(D, name) of every name
\* of the returned sequence succeeds and returns a node of the kind Readdir
\* reported for that name, also when the listing mixes files and directories.
C1_LookupAfterReaddirMatches ==
  ReaddirThenLookup =>
    /\ last.errno = OK
    /\ last.mode = ReportedMode(prev.entries, last.name)

\* a successful Write at offset 0 followed at once by a Read of the same file,
\* from offset 0, of as many bytes as were written
WriteThenRead ==
  /\ last.op = "Read" /\ last.off = 0
  /\ prev.op = "Write" /\ prev.errno = OK /\ prev.off = 0
  /\ last.node.path = prev.node.path
  /\ last.len = Len(prev.data)

\* C2: after a successful Write(offset 0, data) of N bytes with no other writer,
\* the remote object is data and Read(offset 0, length N) returns exactly data
\* (unless the remote read itself fails).
C2_WriteReadRoundTrip ==
  WriteThenRead =>
    /\ Quiet => store[last.node.path] = FileObj(prev.data, prev.stamp)
    /\ last.failed \/ (last.errno = OK /\ last.bytes = prev.data)

\* C2 witness: Create, Write(0, data), Read(0, N) returning data
C2_Witness ==
  /\ WriteThenRead
  /\ opsLeft = MaxOps - 3
  /\ last.errno = OK /\ last.bytes = prev.data /\ Len(last.bytes) = 2

\* a successful Write of M bytes at offset K > 0 into a file that held L >= K bytes
WriteInside ==
  /\ Quiet
  /\ last.op = "Write" /\ last.errno = OK
  /\ last.off > 0
  /\ last.old.kind = "file" /\ Len(last.old.content) >= last.off

\* C3: such a Write leaves bytes [0, K) as they were, puts data at [K, K+M), and
\* leaves an object of max(L, K+M) bytes: the bytes past K+M are still there.
C3_WritePreservesRest ==
  WriteInside =>
    LET new == store[last.node.path].content
        old == last.old.content
        K == last.off
        M == Len(last.data)
    IN /\ Take(new, K) = Take(old, K)
       /\ SubSeq(new, K + 1, Min(Len(new), K + M)) = last.data
       /\ Len(new) = Max(Len(old), K + M)
       /\ Drop(new, K + M) = Drop(old, K + M)

\* C4 (state): a Write that returns EIO wrote 0 bytes and left the node's cached
\* size and modification time and the remote object as they were before the call.
FailedWriteChangedNothing ==
  (last.op = "Write" /\ last.errno = EIO) =>
    /\ last.written = 0
    /\ Quiet => infos[last.node.info] = last.oldInfo
    /\ Quiet => store[last.node.path] = last.old

\* C4 (step): the cached attributes an open file's node points to change only
\* in the step of a Write through that FileInfo that follows its successful
\* upload, which the store then holds.
SizeUpdateFollowsUpload ==
  \A h \in handles :
    infos'[h.node.info] # infos[h.node.info] =>
      \E w \in Workers :
        /\ pc[w] = "write_update" /\ pc'[w] = "idle"
        /\ loc[w].node.info = h.node.info
        /\ store[loc[w].node.path] = FileObj(loc[w].buf, loc[w].stamp)

\* C4: a failed WriteWhole (or a failed remote Read before it) makes Write return
\* EIO with 0 bytes written and leaves cached size, modification time and
\* remote content unchanged; the cached size is updated only in a step that
\* follows a successful WriteWhole.
C4_FailedWriteAtomic == []FailedWriteChangedNothing /\ [][SizeUpdateFollowsUpload]_vars

\* C4 witness: a Write at an offset > 0 whose upload failed
C4_Witness ==
  /\ last.op = "Write" /\ last.errno = EIO /\ last.off > 0
  /\ Len(last.buf) > 0
  /\ last.old.kind = "file"

\* a successful Unlink or Rmdir of a name followed at once by Lookup of that name
RemoveThenLookup ==
  /\ last.op = "Lookup"
  /\ prev.op \in RemoveOps /\ prev.errno = OK
  /\ prev.name = last.name

\* C5: after Remove(P, x) has returned success, Lookup(P, x) returns not-found:
\* x is not in P.children and the remote directory no longer lists x.
C5_LookupAfterRemoveNotFound ==
  RemoveThenLookup =>
    /\ last.errno = ENOENT
    /\ Quiet => children[last.name] = NoNode
    /\ Quiet => last.name \notin RemoteNames(store, RootPath)

\* C5 witness: Create x, Unlink x, Lookup x answered by a listing without x
C5_Witness ==
  /\ RemoveThenLookup
  /\ opsLeft = MaxOps - 3
  /\ last.errno = ENOENT /\ ~last.failed
  /\ handles # {}

\* the bytes [off, min(L, off + len)) of content
Slice(content, off, len) == SubSeq(content, off + 1, Min(Len(content), off + len))

\* C6: Read(offset, length) of an object of L bytes succeeds (unless the remote
\* read fails) and returns exactly the bytes [offset, min(L, offset + length)):
\* a short read past the end, nothing at or after the end.
C6_ReadReturnsSlice ==
  (last.op = "Read" /\ last.old.kind = "file" /\ ~last.failed) =>
    /\ last.errno = OK
    /\ last.bytes = Slice(last.old.content, last.off, last.len)

\* C6 witness: a short read, offset + length past the end of the object
C6_Witness ==
  /\ last.op = "Read" /\ last.errno = OK
  /\ last.off > 0 /\ last.off + last.len > Len(last.old.content)
  /\ Len(last.bytes) = Len(last.old.content) - last.off
  /\ Len(last.bytes) = 2

MutatingOps == {"Create", "Mkdir", "Unlink", "Rmdir", "Write"}

\* the call that returned last asked to change something
LastMutates ==
  last.op \in MutatingOps \/ (last.op = "Open" /\ last.flags \in {O_WRONLY, O_RDWR})

\* C7 as stated: on a read-only mount every mutating call, Open with write or
\* read-write flags included, returns EROFS.
C7_MutatingReturnsEROFS == (readOnly /\ LastMutates) => last.errno = EROFS

\* C7 (state): on a read-only mount every mutating call returns EROFS, but for
\* Open with write flags on a directory node, which the kind check rejects first
\* with EISDIR; no call of a mutating handler is past its first step, and no
\* handle was opened for writing.
ReadOnlyRejects ==
  readOnly =>
    /\ LastMutates =>
         last.errno = IF last.op = "Open" /\ infos[last.node.info].IsDir
                        THEN EISDIR ELSE EROFS
    /\ \A w \in Workers : pc[w] \in {"idle", "lookup_list", "lookup_insert", "readdir_rebuild"}
    /\ \A h \in handles : h.flags = O_RDONLY

\* C7 (step): on a read-only mount no step changes the remote store, and a
\* step in which a mutating call returns changes no children map, no cached
\* attribute and no handle.
ReadOnlyFrame ==
  readOnly =>
    /\ store' = store
    /\ (opsLeft' # opsLeft /\ LastMutates') =>
         (children' = children /\ infos' = infos /\ handles' = handles)

\* C7 amended: on a read-only mount every mutating call fails, with EROFS (Open
\* with write flags on a directory node: with EISDIR), the remote store never
\* changes and those calls change neither a children map nor a cached size.
C7_ReadOnlyMount == []ReadOnlyRejects /\ [][ReadOnlyFrame]_vars

\* C7 witness: a Write through a handle of a read-only mount, rejected
C7_Witness == readOnly /\ last.op = "Write" /\ last.errno = EROFS

\* C8: a Read or a Write through a session whose node has been dropped from its
\* parent's children fails with ESTALE; it never succeeds and never uploads.
C8_StaleHandleFails ==
  (last.op \in {"Read", "Write"} /\ last.stale) =>
    (last.errno = ESTALE /\ last.stamp = 0)

\* two Writes to one file have returned, one after the other, and no call is in flight
TwoWrites ==
  /\ Quiet
  /\ last.op = "Write" /\ prev.op = "Write"
  /\ last.node.path = prev.node.path

\* of the two, the Write whose upload landed last, and the other one
LandedLast == IF last.stamp > prev.stamp THEN last ELSE prev

LandedFirst == IF last.stamp > prev.stamp THEN prev ELSE last

\* C9: two Writes to one file, run in any interleaving on a writable mount with
\* no remote call failing, both return success, and the remote object is exactly
\* the buffer of the Write whose upload landed last.
C9_LastUploadWins ==
  (TwoWrites /\ ~readOnly /\ ~last.failed /\ ~prev.failed) =>
    /\ last.errno = OK /\ prev.errno = OK
    /\ store[last.node.path] = FileObj(LandedLast.buf, LandedLast.stamp)

\* C9 witness: a Write at offset 0 and a Write beyond it, both successful; the
\* second rebuilt its buffer from the empty object before the first landed, and
\* landed last: the object holds none of the first one's bytes
C9_Witness ==
  /\ TwoWrites
  /\ last.errno = OK /\ prev.errno = OK
  /\ LandedFirst.off = 0 /\ LandedFirst.stamp > 0
  /\ LandedLast.off = MaxOff /\ LandedLast.buf = LandedLast.data
  /\ store[last.node.path].content = LandedLast.buf
  /\ \A i \in 1..Len(LandedLast.buf), j \in 1..Len(LandedFirst.data) :
       LandedLast.buf[i] # LandedFirst.data[j]

\* a call of worker w, one of ops, returns in this step: its last step, or its
\* only one
Returns(w, ops) ==
  /\ pc'[w] = "idle"
  /\ pc[w] # "idle" \/ (opsLeft' # opsLeft /\ pc' = pc)
  /\ last'.op \in ops

\* every entry of the children map but name's is as it was
OthersKept(name) == \A nm \in Names \ {name} : children'[nm] = children[nm]

\* C11 (step): what the step in which a Remove returns does
RemoveStep ==
  \A w \in Workers :
    Returns(w, RemoveOps) =>
      /\ last'.errno = EIO => (children' = children /\ store' = store)
      /\ last'.errno = OK =>
            /\ pc[w] = "unlink_remove"
            /\ last'.calls = <<"Delete">>
            /\ store[Join(RootPath, last'.name)] = NoObj
            /\ children'[last'.name] = NoNode
            /\ OthersKept(last'.name)

\* C11: Remove calls Delete on the child path first; when Delete fails it returns
\* EIO and the children map is as before; when Delete succeeds the name is gone
\* from the map afterwards and every other entry is unchanged.
C11_RemoveDeletesFirst == [][RemoveStep]_vars

\* C11 witness: a Remove whose Delete failed, the cached entry still in the map
C11_Witness ==
  /\ last.op \in RemoveOps /\ last.errno = EIO /\ last.failed
  /\ children[last.name] # NoNode

\* C12 (step): what the step in which a Create or a Mkdir returns does
InsertStep ==
  \A w \in Workers :
    Returns(w, {"Create", "Mkdir"}) =>
      /\ last'.errno # OK => children' = children
      /\ last'.errno = EIO => store' = store
      /\ last'.errno = OK =>
            LET name == last'.name
                obj == store[Join(RootPath, name)]
                child == children'[name]
            IN /\ pc[w] = IF last'.op = "Create" THEN "create_insert" ELSE "mkdir_insert"
               /\ obj.kind = IF last'.op = "Create" THEN "file" ELSE "dir"
               /\ obj.content = <<>>
               /\ child = last'.node
               /\ child.path = Join(RootPath, name)
               /\ infos'[child.info].IsDir = (last'.op = "Mkdir")
               /\ infos'[child.info].Size = 0
               /\ infos'[child.info].Name = name
               /\ OthersKept(name)

\* C12: Create and Mkdir insert the new child only in a step that follows the
\* successful remote Write (of the empty object) or Mkdir on the child path; when
\* the remote call fails they return EIO and the children map is unchanged; the
\* node inserted is a file of size 0 or a directory, at the parent's path joined
\* with the name.
C12_InsertFollowsRemote == [][InsertStep]_vars

\* C12 witness: a Create that returned a new, empty file in the map
C12_Witness ==
  /\ last.op = "Create" /\ last.errno = OK
  /\ children[last.name] = last.node
  /\ infos[last.node.info].Size = 0 /\ ~infos[last.node.info].IsDir
  /\ store[last.node.path] = FileObj(<<>>, infos[last.node.info].Modified - 1)

\* C13: no Getattr reads a node's cached attributes while a Write holds that
\* node's mu and is in the middle of updating them.
C13_NoReadDuringUpdate ==
  \A r \in Workers, u \in Workers :
    ~ /\ pc[r] = "getattr_read"
      /\ pc[u] \in {"write_size", "write_mtime"}
      /\ loc[r].node = loc[u].node

\* the places from which a call's next step issues a remote call (a call not yet
\* begun included)
RemotePcs == {"idle", "lookup_list", "write_upload"}

\* C14 (state): a worker holds at most one node lock, and none where a remote
\* call is its next step
LockDiscipline ==
  /\ \A w \in Workers : Cardinality({l \in mu : l.w = w}) <= 1
  /\ \A l \in mu : pc[l.w] \notin RemotePcs

\* C14: a worker holds at most one node lock at a time and never one while a
\* remote call is in flight, and every call that has begun returns: the calls of
\* a run being finitely many, from some point on no call is in flight.
C14_NoDeadlock ==
  /\ []LockDiscipline
  /\ <>[]Quiet

\* C14 witness: a Lookup waits in RLock for the root's mu, which another call
\* holds exclusively
C14_Witness ==
  \E w \in Workers :
    /\ pc[w] = "lookup_rlock"
    /\ \E l \in mu : l.node = loc[w].node /\ l.mode = "W" /\ l.w # w

\* the names a children map holds
Keys(ch) == {nm \in Names : ch[nm] # NoNode}

\* C16 (step): what the steps of a Readdir do to the children map
ReaddirStep ==
  \A w \in Workers :
    /\ (pc[w] = "idle" /\ pc'[w] = "readdir_rebuild") =>
          loc'[w].files \in RemoteList(store, loc'[w].node.path)
    /\ Returns(w, {"Readdir"}) =>
          /\ last'.errno # OK => children' = children
          /\ last'.errno \in {OK, EIO} => last'.calls = <<"List">>
          /\ (last'.errno = OK /\ last'.node = RootNode) =>
                Keys(children') = {last'.entries[i].Name : i \in 1..Len(last'.entries)}

\* C16 (state): no Lookup reads a children map that a Readdir is rebuilding
NoPartialView ==
  \A r \in Workers, u \in Workers :
    ~ /\ pc[r] = "lookup_rlocked"
      /\ pc[u] = "readdir_loop"
      /\ loc[r].node = loc[u].node

\* C16: Readdir always lists the remote directory anew; when the listing
\* succeeds the children map holds exactly the listing's names as Readdir
\* returns, and no Lookup reads the map while it is rebuilt; when the listing
\* fails Readdir returns EIO and the map is unchanged.
C16_ReaddirReplacesMap == []NoPartialView /\ [][ReaddirStep]_vars

\* C16 witness: a Readdir half-way through rebuilding the root's map, a Lookup
\* waiting for the lock
C16_Witness ==
  \E r \in Workers, u \in Workers :
    /\ pc[r] = "lookup_rlock"
    /\ pc[u] = "readdir_loop" /\ loc[u].node = RootNode /\ loc[r].node = RootNode
    /\ 0 < loc[u].i /\ loc[u].i < Len(loc[u].files)
    /\ Keys(children) # {loc[u].files[i].Name : i \in 1..Len(loc[u].files)}

\* C15 (step): the return of a call whose context was cancelled while it was
\* in flight
CancelledReturn ==
  \A w \in Workers :
    (pc[w] # "idle" /\ pc'[w] = "idle" /\ ctx = CallNo) =>
        /\ last'.errno # OK
        /\ children' = children
        /\ infos' = infos
        /\ handles' = handles

\* C15: a call whose context is cancelled while its remote call is in flight
\* returns an error, discards the result and updates no cached state.
C15_CancelledCallDiscards == [][CancelledReturn]_vars

\* C17 (step): what the step in which a Lookup on the root returns does, by
\* whether the name was cached when it began
LookupStep ==
  \A w \in Workers :
    Returns(w, {"Lookup"}) =>
      LET name == last'.name
          p == RootPath \o name
      IN IF pc[w] = "idle"
           THEN /\ children[name] # NoNode
                /\ last'.calls = <<>>
                /\ last'.errno = OK /\ last'.node = children[name]
                /\ children' = children /\ infos' = infos
           ELSE /\ last'.calls = <<"List">>
                /\ last'.errno \in {OK, ENOENT}
                /\ (~last'.failed /\ store[p].kind = "none") => last'.errno = ENOENT
                /\ (~last'.failed /\ store[p].kind # "none") => last'.errno = OK
                /\ last'.errno = ENOENT => children' = children
                /\ last'.errno = OK =>
                      /\ children[name] = NoNode
                      /\ children'[name] = last'.node
                      /\ last'.node.path = p
                      /\ infos'[last'.node.info].IsDir = (store[p].kind = "dir")
                      /\ infos'[last'.node.info].Size = Len(store[p].content)
                      /\ OthersKept(name)
                      /\ \A nm \in Names \ {name} :
                            children[nm] # NoNode =>
                              infos'[children[nm].info] = infos[children[nm].info]

\* C17: Lookup answers a cached name from the children map without a remote
\* call; on a miss it issues exactly one List, inserts the one child the listing
\* holds under the name (kind and size from the entry, path the parent's joined
\* with the name) leaving every other entry as it was, and when the listing
\* omits the name returns ENOENT with the map unchanged.
C17_LookupHitOrList == [][LookupStep]_vars

\* C17 witness: a Lookup missed, listed and inserted its child beside an entry
\* already cached
C17_Witness ==
  /\ Quiet
  /\ last.op = "Lookup" /\ last.errno = OK /\ last.calls = <<"List">>
  /\ children[last.name] = last.node
  /\ \E nm \in Names \ {last.name} : children[nm] # NoNode

\* C18 (step): Readdir on a node whose cached kind is file, Open on a node whose
\* cached kind is directory
WrongKindStep ==
  \A w \in Workers :
    /\ (Returns(w, {"Readdir"}) /\ ~infos[last'.node.info].IsDir) =>
          /\ pc[w] = "idle"
          /\ last'.errno = ENOTDIR
          /\ last'.calls = <<>>
          /\ children' = children /\ infos' = infos /\ store' = store
    /\ (Returns(w, {"Open"}) /\ infos[last'.node.info].IsDir) =>
          /\ last'.errno = EISDIR
          /\ last'.calls = <<>>
          /\ handles' = handles /\ store' = store

\* C18 (state): no file handle is open on a node whose cached kind is directory
NoDirSession == \A h \in handles : ~infos[h.node.info].IsDir

\* C18: Readdir on a file node returns ENOTDIR without a List and leaves the
\* children map unchanged, Open on a directory node returns EISDIR without
\* creating a file handle, and no file handle ever exists on a directory node.
C18_WrongKindFailsFirst == []NoDirSession /\ [][WrongKindStep]_vars

\* C18 witness: Open was refused on a cached child directory while a handle is
\* open on a file
C18_Witness ==
  /\ Quiet
  /\ last.op = "Open" /\ last.errno = EISDIR /\ last.node # RootNode
  /\ \E nm \in Names : children[nm] = last.node
  /\ handles # {}

\* C19 (step): what a Getattr does and returns
GetattrStep ==
  \A w \in Workers :
    Returns(w, {"Getattr"}) =>
      LET info == infos[last'.node.info]
      IN /\ last'.calls = <<>>
         /\ last'.errno = OK
         /\ store' = store /\ children' = children /\ infos' = infos
         /\ handles' = handles /\ readOnly' = readOnly
         /\ last'.attr.Size = info.Size
         /\ last'.attr.Mtime = info.Modified
         /\ last'.attr.Ctime = info.Modified /\ last'.attr.Atime = info.Modified
         /\ last'.attr.Type = (IF info.IsDir THEN S_IFDIR ELSE S_IFREG)
         /\ last'.attr.Perm = (IF info.IsDir THEN Mode0755 ELSE Mode0644)
         /\ last'.attr.Uid = MountUID /\ last'.attr.Gid = MountGID

\* C19: Getattr issues no remote call and changes no state, and the attributes
\* it returns are determined by the node's cached IsDir, Size and Modified and
\* by the mount's UID and GID.
C19_GetattrIsPureRead == [][GetattrStep]_vars

\* C19 witness: Getattr answered for a cached file whose cached size is not the
\* remote object's
C19_Witness ==
  /\ Quiet
  /\ last.op = "Getattr" /\ last.errno = OK /\ last.node # RootNode
  /\ last.attr.Type = S_IFREG
  /\ last.node.path \in DOMAIN store
  /\ last.attr.Size # Len(store[last.node.path].content)

\* C20 (state): the root is the directory "/", and every entry of its children
\* map holds a node whose path is "/" followed by the entry's name
PathInvariant ==
  /\ RootNode.path = "/"
  /\ infos[RootNode.info].IsDir
  /\ \A nm \in Names : children[nm] # NoNode => children[nm].path = "/" \o nm

\* C20: in every reachable state the root node has path "/" and is a directory,
\* and the path of every child in a children map is its parent's path joined
\* with its name.
C20_PathInvariant == PathInvariant

\* C20 witness: both names are cached, one put there by a Lookup or Readdir and
\* one by a Create or Mkdir
C20_Witness ==
  /\ Quiet
  /\ \A nm \in Names : children[nm] # NoNode
  /\ last.op \in {"Create", "Mkdir"} /\ last.errno = OK
  /\ \E nm \in Names \ {last.name} : children[nm].info # children[last.name].info

\* what a umask leaves of the permissions of a directory and of a regular file
Masked(isDir, mask) ==
  (IF isDir THEN PermBits ELSE PermBits \ {"ux", "gx", "ox"}) \ mask

\* C21: the attributes Getattr answers have the directory type iff the cached
\* entry is a directory, the three times equal to the entry's modification
\* time, uid and gid of the mount configuration, and permission bits derived
\* from the mount's umask.
C21_AttrFromConfig ==
  (Quiet /\ last.op = "Getattr" /\ last.errno = OK) =>
    LET info == infos[last.node.info]
    IN /\ (last.attr.Type = S_IFDIR) <=> info.IsDir
       /\ last.attr.Mtime = info.Modified
       /\ last.attr.Ctime = info.Modified /\ last.attr.Atime = info.Modified
       /\ last.attr.Uid = MountUID /\ last.attr.Gid = MountGID
       /\ last.attr.Perm = Masked(info.IsDir, umask)

\* a Write at an offset beyond the end of the object has returned, no remote call
\* of it having failed
WriteBeyondEnd ==
  /\ Quiet
  /\ last.op = "Write" /\ ~readOnly /\ ~last.failed
  /\ last.old.kind = "file" /\ last.off > Len(last.old.content)

\* C22: a Write at an offset beyond the object's length L uploads exactly the L
\* existing bytes followed by data, with no padding, succeeds and returns
\* len(data).
C22_NoZeroPadding ==
  WriteBeyondEnd =>
    /\ last.errno = OK
    /\ last.written = Len(last.data)
    /\ last.buf = last.old.content \o last.data
    /\ store[last.node.path].content = last.old.content \o last.data
    /\ Len(store[last.node.path].content) = Len(last.old.content) + Len(last.data)

\* C22 witness: such a Write into an object that held some bytes, fewer than the
\* offset
C22_Witness ==
  /\ WriteBeyondEnd
  /\ last.errno = OK
  /\ Len(last.old.content) > 0
  /\ Len(store[last.node.path].content) < last.off + Len(last.data)

\* C23: after a successful Write with no other call in flight, the node's cached
\* size is the length of the remote object the Write uploaded.
C23_CachedSizeIsRemoteLength ==
  (Quiet /\ last.op = "Write" /\ last.errno = OK) =>
    /\ store[last.node.path] = FileObj(last.buf, last.stamp)
    /\ infos[last.node.info].Size = Len(store[last.node.path].content)

\* C24: when a Readdir of the root has returned, every child it created has a
\* FileInfo of its own, holding the kind and the size of the child's own listing
\* entry (hence a Write through one child changes no sibling's size).
C24_ChildOwnsItsRecord ==
  (Quiet /\ last.op = "Readdir" /\ last.errno = OK /\ last.node = RootNode) =>
    \A nm \in Keys(children) :
      LET info == infos[children[nm].info]
          obj == store[children[nm].path]
      IN /\ info.IsDir = (obj.kind = "dir")
         /\ info.Size = Len(obj.content)
         /\ \A other \in Keys(children) \ {nm} : children[other].info # children[nm].info

\* C26: after two successful Writes to one file have both returned, in whatever
\* order their uploads and their size updates interleaved, the cached size is
\* the length of the remote object the upload that landed last left. (Stated for
\* Writes at offset 0, whose buffers are their data.)
C26_CachedSizeFollowsLastUpload ==
  (TwoWrites /\ last.errno = OK /\ prev.errno = OK /\ last.off = 0 /\ prev.off = 0) =>
    /\ store[last.node.path] = FileObj(LandedLast.buf, LandedLast.stamp)
    /\ infos[last.node.info].Size = Len(store[last.node.path].content)

\* C25: once no call is in flight, every name in the root's children map exists
\* in the remote directory (so a name removed while a Readdir or a Lookup that
\* had listed it was in flight is not cached afterwards).
C25_CachedNamesExist ==
  Quiet => \A nm \in Keys(children) : nm \in RemoteNames(store, RootPath)

\* a Readdir of the root returned a listing without a name that the remote
\* directory holds (added after the listing was taken: the rebuild dropped it
\* from the map), and the Lookup of that name that returned next did not fail in
\* its remote call
DroppedThenLookup ==
  /\ Quiet
  /\ last.op = "Lookup" /\ ~last.failed
  /\ prev.op = "Readdir" /\ prev.errno = OK /\ prev.node = RootNode
  /\ \A i \in 1..Len(prev.entries) : prev.entries[i].Name # last.name
  /\ store[RootPath \o last.name].kind # "none"

C10_RemoteFailureIsEIO ==
  /\ last.failed => last.errno = EIO
  /\ (last.op = "Lookup" /\ last.errno = ENOENT) => ~last.failed

====
